---------------------------- MODULE Spec2Model ----------------------------
(***************************************************************************)
(* ZON ClearText codec (zon/encoder.py, zon/decoder.py).                   *)
(*                                                                         *)
(* Text is a sequence of one-character strings.  A Value is a tagged       *)
(* record; an Object keeps its entries in insertion order, as a Python     *)
(* dict does, as a sequence of [k, v] records with distinct keys.          *)
(***************************************************************************)
EXTENDS Integers, Sequences, FiniteSets, TLC

(***************************************************************************)
(* Format constants (zon/constants.py).                                    *)
(***************************************************************************)
TABLE_MARKER == <<"@">>
META_SEPARATOR == <<":", " ">>
GAS_TOKEN == <<"_">>
LIQUID_TOKEN == <<"^">>

(***************************************************************************)
(* The Value model.  A float is the decimal m / 10^e with e > 0 only when  *)
(* m is not a multiple of 10, so equal floats are equal records.           *)
(***************************************************************************)
VNull == [t |-> "null"]
VBool(b) == [t |-> "bool", b |-> b]
VInt(n) == [t |-> "int", n |-> n]
VFloat(m, e) == [t |-> "float", m |-> m, e |-> e]
VStr(s) == [t |-> "str", s |-> s]
VList(xs) == [t |-> "list", items |-> xs]
VDict(kv) == [t |-> "dict", kv |-> kv]
KV(k, v) == [k |-> k, v |-> v]

IsNum(v) == v.t \in {"int", "float"}
IsNumOrBool(v) == v.t \in {"int", "float", "bool"}

Max(a, b) == IF a >= b THEN a ELSE b
Min(a, b) == IF a <= b THEN a ELSE b

(***************************************************************************)
(* Characters.  AsciiOrder lists the alphabet of the model by code point.  *)
(***************************************************************************)
AsciiOrder ==
    << "\t", "\n", "\r", " ", "\"", "(", ")", "+", ",", "-", ".", "/",
       "0", "1", "2", "3", "4", "5", "6", "7", "8", "9", ":", "@",
       "F", "T", "[", "\\", "]", "^", "_",
       "a", "b", "c", "d", "e", "f", "i", "k", "l", "m", "n", "o", "r",
       "s", "t", "u", "x", "y", "z", "{", "}" >>

CharCode == [c \in {AsciiOrder[i] : i \in DOMAIN AsciiOrder} |->
                CHOOSE i \in DOMAIN AsciiOrder : AsciiOrder[i] = c]

DigitChars == <<"0", "1", "2", "3", "4", "5", "6", "7", "8", "9">>
DigitSet == {DigitChars[i] : i \in 1..10}
DigitVal == [c \in DigitSet |-> (CHOOSE i \in 1..10 : DigitChars[i] = c) - 1]
WhiteSpace == {" ", "\t", "\n", "\r"}
WordChars == DigitSet \cup {"_", "F", "T", "a", "b", "c", "d", "e", "f", "i", "k",
                            "l", "m", "n", "o", "r", "s", "t", "u", "x", "y", "z"}

RECURSIVE Pow10(_)
Pow10(n) == IF n <= 0 THEN 1 ELSE 10 * Pow10(n - 1)

(***************************************************************************)
(* Python str operations.                                                  *)
(***************************************************************************)
\* s[a-1:b], s[n:] and s[:n] with 1-based inclusive bounds, clipped as a
\* Python slice is
Slice(s, a, b) == SubSeq(s, Max(1, a), Min(b, Len(s)))
Drop(s, n) == Slice(s, n + 1, Len(s))
Take(s, n) == Slice(s, 1, n)

StartsWith(s, p) == Len(s) >= Len(p) /\ Take(s, Len(p)) = p
EndsWith(s, p) == Len(s) >= Len(p) /\ Drop(s, Len(s) - Len(p)) = p
Contains(s, c) == \E i \in 1..Len(s) : s[i] = c
ContainsAny(s, cs) == \E i \in 1..Len(s) : s[i] \in cs

\* str.find: least index (1-based) where sub occurs in s, 0 when it does not
Find(s, sub) ==
    IF \E i \in 1..(Len(s) - Len(sub) + 1) : SubSeq(s, i, i + Len(sub) - 1) = sub
    THEN CHOOSE i \in 1..(Len(s) - Len(sub) + 1) :
            /\ SubSeq(s, i, i + Len(sub) - 1) = sub
            /\ \A j \in 1..(i - 1) : SubSeq(s, j, j + Len(sub) - 1) # sub
    ELSE 0

LStrip(s) ==
    IF \A i \in 1..Len(s) : s[i] \in WhiteSpace THEN <<>>
    ELSE Drop(s, (CHOOSE i \in 1..Len(s) :
                     s[i] \notin WhiteSpace /\ \A j \in 1..(i - 1) : s[j] \in WhiteSpace) - 1)
RStrip(s) ==
    IF \A i \in 1..Len(s) : s[i] \in WhiteSpace THEN <<>>
    ELSE Take(s, CHOOSE i \in 1..Len(s) :
                     s[i] \notin WhiteSpace /\ \A j \in (i + 1)..Len(s) : s[j] \in WhiteSpace)
Strip(s) == LStrip(RStrip(s))

\* str.isdigit
IsDigitStr(s) == Len(s) > 0 /\ \A i \in 1..Len(s) : s[i] \in DigitSet

\* str.split(sep) for a one-character separator: always at least one piece
RECURSIVE SplitOn(_, _)
SplitOn(s, c) ==
    IF ~Contains(s, c) THEN <<s>>
    ELSE <<Take(s, Find(s, <<c>>) - 1)>> \o SplitOn(Drop(s, Find(s, <<c>>)), c)

\* sep.join(parts)
RECURSIVE Join(_, _)
Join(parts, sep) ==
    IF Len(parts) = 0 THEN <<>>
    ELSE IF Len(parts) = 1 THEN parts[1]
    ELSE parts[1] \o sep \o Join(Tail(parts), sep)

\* s.replace('"', '""')
RECURSIVE DoubleQuotes(_)
DoubleQuotes(s) ==
    IF Len(s) = 0 THEN <<>>
    ELSE (IF s[1] = "\"" THEN <<"\"", "\"">> ELSE <<s[1]>>) \o DoubleQuotes(Tail(s))

\* lexicographic order of str by code point
RECURSIVE StrLess(_, _)
StrLess(a, b) ==
    IF Len(b) = 0 THEN FALSE
    ELSE IF Len(a) = 0 THEN TRUE
    ELSE IF a[1] = b[1] THEN StrLess(Tail(a), Tail(b))
    ELSE CharCode[a[1]] < CharCode[b[1]]

\* str(n) for an int
RECURSIVE NatStr(_)
NatStr(n) == IF n < 10 THEN <<DigitChars[n + 1]>>
             ELSE NatStr(n \div 10) \o <<DigitChars[(n % 10) + 1]>>
IntStr(n) == IF n < 0 THEN <<"-">> \o NatStr(-n) ELSE NatStr(n)

\* n written with exactly w digits
RECURSIVE PadNat(_, _)
PadNat(n, w) == IF w <= 0 THEN <<>>
                ELSE PadNat(n \div 10, w - 1) \o <<DigitChars[(n % 10) + 1]>>

\* str(x) for a float m / 10^e of moderate size: Python's repr is then the
\* plain decimal, with ".0" for an integral value
FloatStr(m, e) ==
    LET a == IF m < 0 THEN -m ELSE m
        sign == IF m < 0 THEN <<"-">> ELSE <<>>
    IN  IF e = 0 THEN sign \o NatStr(a) \o <<".", "0">>
        ELSE sign \o NatStr(a \div Pow10(e)) \o <<".">> \o PadNat(a % Pow10(e), e)

(***************************************************************************)
(* Python dict operations on insertion-ordered entry sequences.            *)
(***************************************************************************)
DictHas(d, k) == \E i \in 1..Len(d) : d[i].k = k
DictIdx(d, k) == CHOOSE i \in 1..Len(d) : d[i].k = k
\* d.get(k): None when the key is absent
DictGet(d, k) == IF DictHas(d, k) THEN d[DictIdx(d, k)].v ELSE VNull
\* d[k] = v: an existing key keeps its position
DictSet(d, k, v) ==
    IF DictHas(d, k) THEN [d EXCEPT ![DictIdx(d, k)] = KV(k, v)]
    ELSE Append(d, KV(k, v))
DictKeys(d) == {d[i].k : i \in 1..Len(d)}

\* dict(items)
RECURSIVE DictFromItems(_)
DictFromItems(items) ==
    IF Len(items) = 0 THEN <<>>
    ELSE LET last == items[Len(items)]
         IN  DictSet(DictFromItems(Take(items, Len(items) - 1)), last.k, last.v)

\* min(S) of a non-empty set of str
MinStr(S) == CHOOSE x \in S : \A y \in S \ {x} : StrLess(x, y)

\* sorted(...) of a set of str
RECURSIVE SortStrs(_)
SortStrs(S) == IF S = {} THEN <<>> ELSE <<MinStr(S)>> \o SortStrs(S \ {MinStr(S)})

\* the entries of d for the keys ks, in the order of ks
EntriesAt(d, ks) == [i \in 1..Len(ks) |-> KV(ks[i], DictGet(d, ks[i]))]

\* sorted(d.items()): entries by key
SortedItems(d) == EntriesAt(d, SortStrs(DictKeys(d)))

(***************************************************************************)
(* Python numbers: bool, int and float compare and add by value.           *)
(***************************************************************************)
NumM(v) == IF v.t = "int" THEN v.n
           ELSE IF v.t = "bool" THEN (IF v.b THEN 1 ELSE 0)
           ELSE v.m
NumE(v) == IF v.t = "float" THEN v.e ELSE 0

RECURSIVE NormFloat(_, _)
NormFloat(m, e) == IF e > 0 /\ m % 10 = 0 THEN NormFloat(m \div 10, e - 1)
                   ELSE VFloat(m, e)

NumEqual(a, b) == NumM(a) * Pow10(NumE(b)) = NumM(b) * Pow10(NumE(a))

\* a + sign * b: an int when neither operand is a float
NumCombine(a, b, sign) ==
    LET E == Max(NumE(a), NumE(b))
        m == NumM(a) * Pow10(E - NumE(a)) + sign * NumM(b) * Pow10(E - NumE(b))
    IN  IF a.t = "float" \/ b.t = "float" THEN NormFloat(m, E) ELSE VInt(m)
NumAdd(a, b) == NumCombine(a, b, 1)
NumSub(a, b) == NumCombine(a, b, -1)

\* Python ==
RECURSIVE PyEq(_, _)
PyEq(a, b) ==
    IF IsNumOrBool(a) /\ IsNumOrBool(b) THEN NumEqual(a, b)
    ELSE IF a.t # b.t THEN FALSE
    ELSE IF a.t = "list" THEN
        /\ Len(a.items) = Len(b.items)
        /\ \A i \in 1..Len(a.items) : PyEq(a.items[i], b.items[i])
    ELSE IF a.t = "dict" THEN
        /\ DictKeys(a.kv) = DictKeys(b.kv)
        /\ \A i \in 1..Len(a.kv) : PyEq(a.kv[i].v, DictGet(b.kv, a.kv[i].k))
    ELSE a = b

(***************************************************************************)
(* Python float(s) and int(s) on text: the literal is read left to right   *)
(* through its parts (sign, integer digits, fraction digits, exponent      *)
(* sign, exponent digits); an underscore is allowed between two digits.    *)
(***************************************************************************)
NoLiteral == [ok |-> FALSE, neg |-> FALSE, m |-> 0, nint |-> 0, nfrac |-> 0,
              dot |-> FALSE, hasExp |-> FALSE, eneg |-> FALSE, ex |-> 0, nexp |-> 0]

IsDigitAt(s, i) == i >= 1 /\ i <= Len(s) /\ s[i] \in DigitSet

\* the literal read from position i on; ok stays FALSE when it is malformed.
\* m counts the integer and the fraction digits together.
RECURSIVE NumScan(_, _, _, _)
NumScan(s, i, part, acc) ==
    IF i > Len(s)
    THEN [acc EXCEPT !.ok = acc.nint + acc.nfrac > 0 /\ (acc.hasExp => acc.nexp > 0)]
    ELSE IF s[i] = "_"
    THEN (IF IsDigitAt(s, i - 1) /\ IsDigitAt(s, i + 1)
          THEN NumScan(s, i + 1, part, acc) ELSE acc)
    ELSE CASE part = "sign" ->
                IF s[i] \in {"+", "-"}
                THEN NumScan(s, i + 1, "int", [acc EXCEPT !.neg = (s[i] = "-")])
                ELSE NumScan(s, i, "int", acc)
           [] part = "int" ->
                IF s[i] \in DigitSet
                THEN NumScan(s, i + 1, "int",
                             [acc EXCEPT !.m = @ * 10 + DigitVal[s[i]], !.nint = @ + 1])
                ELSE IF s[i] = "."
                THEN NumScan(s, i + 1, "frac", [acc EXCEPT !.dot = TRUE])
                ELSE IF s[i] = "e" /\ acc.nint > 0
                THEN NumScan(s, i + 1, "esign", [acc EXCEPT !.hasExp = TRUE])
                ELSE acc
           [] part = "frac" ->
                IF s[i] \in DigitSet
                THEN NumScan(s, i + 1, "frac",
                             [acc EXCEPT !.m = @ * 10 + DigitVal[s[i]], !.nfrac = @ + 1])
                ELSE IF s[i] = "e" /\ acc.nint + acc.nfrac > 0
                THEN NumScan(s, i + 1, "esign", [acc EXCEPT !.hasExp = TRUE])
                ELSE acc
           [] part = "esign" ->
                IF s[i] \in {"+", "-"}
                THEN NumScan(s, i + 1, "exp", [acc EXCEPT !.eneg = (s[i] = "-")])
                ELSE NumScan(s, i, "exp", acc)
           [] part = "exp" ->
                IF s[i] \in DigitSet
                THEN NumScan(s, i + 1, "exp",
                             [acc EXCEPT !.ex = @ * 10 + DigitVal[s[i]], !.nexp = @ + 1])
                ELSE acc

\* the decimal literal in s0, surrounding white space ignored
NumLiteral(s0) == NumScan(Strip(s0), 1, "sign", NoLiteral)

FloatWords == { <<"i", "n", "f">>, <<"i", "n", "f", "i", "n", "i", "t", "y">>,
                <<"n", "a", "n">> }

\* s without a leading sign
Unsigned(s) == IF Len(s) > 0 /\ s[1] \in {"+", "-"} THEN Tail(s) ELSE s
IsFloatWord(s0) == Unsigned(Strip(s0)) \in FloatWords

\* float(s) does not raise ValueError
IsFloatLiteral(s0) == IsFloatWord(s0) \/ NumLiteral(s0).ok

\* the float  (-1)^neg * m * 10^(ex - nfrac)  of a literal
LiteralFloat(lit, sm, ex) ==
    IF ex >= lit.nfrac THEN VFloat(sm * Pow10(ex - lit.nfrac), 0)
    ELSE NormFloat(sm, lit.nfrac - ex)

\* float(s) for a literal that float accepts
FloatValue(s0) ==
    IF IsFloatWord(s0)
    THEN [t |-> "fspecial",
          name |-> (IF Head(Strip(s0)) = "-" THEN <<"-">> ELSE <<>>) \o Unsigned(Strip(s0))]
    ELSE LiteralFloat(NumLiteral(s0),
                      IF NumLiteral(s0).neg THEN -NumLiteral(s0).m ELSE NumLiteral(s0).m,
                      IF NumLiteral(s0).eneg THEN -NumLiteral(s0).ex ELSE NumLiteral(s0).ex)

\* int(s) does not raise ValueError
IsIntLiteral(s0) == NumLiteral(s0).ok /\ ~NumLiteral(s0).dot /\ ~NumLiteral(s0).hasExp

\* int(s) for a literal that int accepts
IntValue(s0) == IF NumLiteral(s0).neg THEN -NumLiteral(s0).m ELSE NumLiteral(s0).m

(***************************************************************************)
(* json.dumps.                                                             *)
(***************************************************************************)
\* the body of a JSON string literal
RECURSIVE JsonEscape(_)
JsonEscape(s) ==
    IF Len(s) = 0 THEN <<>>
    ELSE (CASE s[1] = "\"" -> <<"\\", "\"">>
            [] s[1] = "\\" -> <<"\\", "\\">>
            [] s[1] = "\n" -> <<"\\", "n">>
            [] s[1] = "\r" -> <<"\\", "r">>
            [] s[1] = "\t" -> <<"\\", "t">>
            [] OTHER -> <<s[1]>>) \o JsonEscape(Tail(s))

\* json.dumps(s) for a str
JsonDumpsStr(s) == <<"\"">> \o JsonEscape(s) \o <<"\"">>

\* json.dumps(v, sort_keys=sortKeys, separators=(itemSep, keySep))
RECURSIVE JsonDumps(_, _, _, _)

\* the "key": value members of an object with the entries es
JsonMembers(es, sortKeys, itemSep, keySep) ==
    [i \in 1..Len(es) |->
        JsonDumpsStr(es[i].k) \o keySep \o JsonDumps(es[i].v, sortKeys, itemSep, keySep)]

JsonDumps(v, sortKeys, itemSep, keySep) ==
    CASE v.t = "null" -> <<"n", "u", "l", "l">>
      [] v.t = "bool" -> IF v.b THEN <<"t", "r", "u", "e">>
                         ELSE <<"f", "a", "l", "s", "e">>
      [] v.t = "int" -> IntStr(v.n)
      [] v.t = "float" -> FloatStr(v.m, v.e)
      [] v.t = "str" -> JsonDumpsStr(v.s)
      [] v.t = "list" ->
            <<"[">> \o Join([i \in 1..Len(v.items) |->
                               JsonDumps(v.items[i], sortKeys, itemSep, keySep)],
                            itemSep) \o <<"]">>
      [] v.t = "dict" ->
            <<"{">> \o Join(JsonMembers(IF sortKeys THEN SortedItems(v.kv) ELSE v.kv,
                                        sortKeys, itemSep, keySep),
                            itemSep) \o <<"}">>

(***************************************************************************)
(* ZonEncoder.                                                             *)
(***************************************************************************)
ReservedTokens == { <<"T">>, <<"F">>, <<"n", "u", "l", "l">>, GAS_TOKEN, LIQUID_TOKEN }
QuoteTriggers == {",", "\n", "\r", "\t", "\"", "[", "]"}
NodeDelimiters == {",", ":", "{", "}", "[", "]"}

\* s.isdigit() or (s.startswith('-') and s[1:].isdigit())
LooksLikeInt(s) == IsDigitStr(s) \/ (StartsWith(s, <<"-">>) /\ IsDigitStr(Tail(s)))

_needs_quotes(s) ==
    \/ Len(s) = 0
    \/ s \in ReservedTokens
    \/ LooksLikeInt(s)
    \/ IsFloatLiteral(s)
    \/ Strip(s) # s
    \/ ContainsAny(s, QuoteTriggers)

_csv_quote(s) == <<"\"">> \o DoubleQuotes(s) \o <<"\"">>

\* s[:-2] if s.endswith(".0") else s
DropDotZero(s) == IF EndsWith(s, <<".", "0">>) THEN Take(s, Len(s) - 2) ELSE s

\* str(val) of an int or a float, with a trailing ".0" removed
NumText(v) == DropDotZero(IF v.t = "int" THEN IntStr(v.n) ELSE FloatStr(v.m, v.e))

\* _csv_quote(s) if _needs_quotes(s) else s
QuoteIfNeeded(s) == IF _needs_quotes(s) THEN _csv_quote(s) ELSE s

RECURSIVE _format_zon_node(_)

\* the "key:value" items of a dict node, es being sorted(val.items())
NodeItems(es) ==
    [i \in 1..Len(es) |-> QuoteIfNeeded(es[i].k) \o <<":">> \o _format_zon_node(es[i].v)]

_format_zon_node(val) ==
    CASE val.t = "null" -> <<"n", "u", "l", "l">>
      [] val.t = "bool" -> IF val.b THEN <<"T">> ELSE <<"F">>
      [] IsNum(val) -> NumText(val)
      [] val.t = "dict" ->
            <<"{">> \o Join(NodeItems(SortedItems(val.kv)), <<",">>) \o <<"}">>
      [] val.t = "list" ->
            <<"[">> \o
            Join([i \in 1..Len(val.items) |-> _format_zon_node(val.items[i])], <<",">>)
            \o <<"]">>
      [] val.t = "str" ->
            IF ContainsAny(val.s, NodeDelimiters) THEN JsonDumpsStr(val.s) ELSE val.s

\* a type protection that only sees surrounding whitespace
whitespace_protection(s) == Strip(s) # s

\* a str that would read back as a bool, null, a token or a number
needs_type_protection(s) ==
    \/ s \in ReservedTokens
    \/ LooksLikeInt(s)
    \/ Strip(s) # s
    \/ IsFloatLiteral(s)

_format_value(val) ==
    CASE val.t = "null" -> <<"n", "u", "l", "l">>
      [] val.t = "bool" -> IF val.b THEN <<"T">> ELSE <<"F">>
      [] IsNum(val) -> NumText(val)
      [] val.t \in {"list", "dict"} -> QuoteIfNeeded(_format_zon_node(val))
      [] val.t = "str" ->
            IF needs_type_protection(val.s) THEN _csv_quote(JsonDumpsStr(val.s))
            ELSE QuoteIfNeeded(val.s)

FLATTEN_MAX_DEPTH == 1

\* f"{parent}{sep}{k}" if parent else k
NewKey(parent, k) == IF Len(parent) > 0 THEN parent \o <<".">> \o k ELSE k

RECURSIVE _flatten(_, _, _)

\* the items list built by the loop of _flatten over the entries kv
RECURSIVE FlattenItems(_, _, _)
FlattenItems(kv, parent, current_depth) ==
    IF Len(kv) = 0 THEN <<>>
    ELSE (IF Head(kv).v.t = "dict" /\ current_depth < FLATTEN_MAX_DEPTH
          THEN _flatten(Head(kv).v, NewKey(parent, Head(kv).k), current_depth + 1)
          ELSE <<KV(NewKey(parent, Head(kv).k), Head(kv).v)>>)
         \o FlattenItems(Tail(kv), parent, current_depth)

_flatten(d, parent, current_depth) ==
    IF d.t # "dict" THEN (IF Len(parent) > 0 THEN <<KV(parent, d)>> ELSE <<>>)
    ELSE DictFromItems(FlattenItems(d.kv, parent, current_depth))

IsCandidate(v) == v.t = "list" /\ Len(v.items) > 0 /\ v.items[1].t = "dict"
Score(v) == Len(v.items) * Len(v.items[1].kv)

\* the entries of data whose value is a non-empty list that starts with a dict
Candidates(data) == SelectSeq(data.kv, LAMBDA e : IsCandidate(e.v))

\* candidates[0] after candidates.sort(key=score, reverse=True): the sort is
\* stable, so the first of the candidates with the greatest score
FirstBest(candidates) ==
    candidates[CHOOSE i \in 1..Len(candidates) :
                 /\ \A j \in 1..Len(candidates) : Score(candidates[j].v) <= Score(candidates[i].v)
                 /\ \A j \in 1..(i - 1) : Score(candidates[j].v) < Score(candidates[i].v)]

\* return stream, meta, key for the chosen candidate
Promote(data, best) ==
    [stream |-> best.v.items,
     metadata |-> SelectSeq(data.kv, LAMBDA e : e.k # best.k),
     has_key |-> TRUE, key |-> best.k]

\* (stream_data, metadata, stream_key); has_key is FALSE for stream_key None
_extract_primary_stream(data) ==
    IF data.t = "list"
    THEN [stream |-> data.items, metadata |-> <<>>, has_key |-> FALSE, key |-> <<>>]
    ELSE IF data.t = "dict" /\ Len(Candidates(data)) > 0
    THEN Promote(data, FirstBest(Candidates(data)))
    ELSE IF data.t = "dict"
    THEN [stream |-> <<>>, metadata |-> data.kv, has_key |-> FALSE, key |-> <<>>]
    ELSE [stream |-> <<>>, metadata |-> <<>>, has_key |-> FALSE, key |-> <<>>]

\* the lines of the loop over sorted(flattened.items())
MetaLines(flattened) ==
    [i \in 1..Len(flattened) |->
        flattened[i].k \o META_SEPARATOR \o _format_value(flattened[i].v)]

_write_metadata(metadata) == MetaLines(SortedItems(_flatten(VDict(metadata), <<>>, 0)))

\* vals = [d.get(col) for d in data]
ColumnValues(data, col) == [i \in 1..Len(data) |-> DictGet(data[i], col)]

\* every value an int or a float, more than one of them, and one difference
IsSequential(vals) ==
    /\ \A i \in 1..Len(vals) : IsNum(vals[i])
    /\ Len(vals) > 1
    /\ \A i \in 2..Len(vals) :
          NumEqual(NumSub(vals[i], vals[i - 1]), NumSub(vals[2], vals[1]))

\* fewer distinct json.dumps(v, sort_keys=True) than values
HasRepetition(vals) ==
    /\ Len(vals) > 1
    /\ Cardinality({JsonDumps(vals[i], TRUE, <<",", " ">>, <<":", " ">>) :
                       i \in 1..Len(vals)}) < Len(vals)

\* the analysis of one column: is_sequential, step, has_repetition
AnalyzeColumn(vals) ==
    [is_sequential |-> IsSequential(vals),
     step |-> IF IsSequential(vals) THEN NumSub(vals[2], vals[1]) ELSE VInt(1),
     has_repetition |-> HasRepetition(vals)]

_analyze_columns(data, cols) ==
    [c \in 1..Len(cols) |-> AnalyzeColumn(ColumnValues(data, cols[c]))]

\* a cell writer that repeats the cell above in a column with repetition
\* without comparing the two values
WriteCellCarry(val, prev, analysis, firstCol, i) ==
    IF firstCol /\ analysis.is_sequential /\ i > 1 /\ NumEqual(val, NumAdd(prev, analysis.step))
    THEN [tok |-> GAS_TOKEN, prev |-> val]
    ELSE IF /\ i > 1 /\ analysis.has_repetition
            /\ Len(_format_value(val)) > 1
    THEN [tok |-> LIQUID_TOKEN, prev |-> val]
    ELSE [tok |-> _format_value(val), prev |-> val]

\* a cell writer that repeats the cell above whatever the length of the
\* rendered value
WriteCellAnyLength(val, prev, analysis, firstCol, i) ==
    IF firstCol /\ analysis.is_sequential /\ i > 1 /\ NumEqual(val, NumAdd(prev, analysis.step))
    THEN [tok |-> GAS_TOKEN, prev |-> val]
    ELSE IF i > 1 /\ PyEq(val, prev) /\ analysis.has_repetition
    THEN [tok |-> LIQUID_TOKEN, prev |-> val]
    ELSE [tok |-> _format_value(val), prev |-> val]

\* one cell of row i (1-based): the token written and the new prev_vals[col]
WriteCell(val, prev, analysis, firstCol, i) ==
    IF firstCol /\ analysis.is_sequential /\ i > 1 /\ NumEqual(val, NumAdd(prev, analysis.step))
    THEN [tok |-> GAS_TOKEN, prev |-> val]
    ELSE IF /\ i > 1 /\ PyEq(val, prev) /\ analysis.has_repetition
            /\ Len(_format_value(val)) > 1
    THEN [tok |-> LIQUID_TOKEN, prev |-> val]
    ELSE [tok |-> _format_value(val), prev |-> val]

\* the row loop of _write_table after the rows in done: for every row, the
\* cell of every column
RECURSIVE WriteRows(_, _, _, _)
WriteRows(flat_stream, cols, col_analysis, done) ==
    IF Len(done) = Len(flat_stream) THEN done
    ELSE WriteRows(flat_stream, cols, col_analysis,
            Append(done,
                [c \in 1..Len(cols) |->
                    WriteCell(DictGet(flat_stream[Len(done) + 1], cols[c]),
                              IF Len(done) = 0 THEN VNull ELSE done[Len(done)][c].prev,
                              col_analysis[c], c = 1, Len(done) + 1)]))

\* ",".join(tokens) for every row
RowLines(rows) ==
    [i \in 1..Len(rows) |-> Join([c \in 1..Len(rows[i]) |-> rows[i][c].tok], <<",">>)]

\* flat_stream = [self._flatten(row) for row in stream]
FlatStream(stream) == [i \in 1..Len(stream) |-> _flatten(stream[i], <<>>, 0)]

\* the column names in descending order
TableColsDescending(flat_stream) ==
    [i \in 1..Cardinality(UNION {DictKeys(flat_stream[j]) : j \in 1..Len(flat_stream)}) |->
        SortStrs(UNION {DictKeys(flat_stream[j]) : j \in 1..Len(flat_stream)})[
            Cardinality(UNION {DictKeys(flat_stream[j]) : j \in 1..Len(flat_stream)}) + 1 - i]]

\* cols = sorted(list(all_keys))
TableCols(flat_stream) ==
    SortStrs(UNION {DictKeys(flat_stream[i]) : i \in 1..Len(flat_stream)})

\* the cells of the table of flat_stream
TableCells(flat_stream) ==
    WriteRows(flat_stream, TableCols(flat_stream),
              _analyze_columns(flat_stream, TableCols(flat_stream)), <<>>)

HeaderLine(key, count, cols) ==
    TABLE_MARKER \o key \o <<"(">> \o IntStr(count) \o <<")">>
    \o META_SEPARATOR \o Join(cols, <<",">>)

_write_table(stream, key) ==
    IF Len(stream) = 0 THEN <<>>
    ELSE <<HeaderLine(key, Len(stream), TableCols(FlatStream(stream)))>>
         \o RowLines(TableCells(FlatStream(stream)))

DATA_KEY == <<"d", "a", "t", "a">>

\* stream_key after `if stream_data and stream_key is None`
StreamKey(ex) == IF Len(ex.stream) > 0 /\ ~ex.has_key THEN DATA_KEY ELSE ex.key

\* `if stream_data and stream_key`
WritesTable(ex) == Len(ex.stream) > 0 /\ Len(StreamKey(ex)) > 0

MetaLinesOf(ex) == IF Len(ex.metadata) > 0 THEN _write_metadata(ex.metadata) ELSE <<>>
TableLinesOf(ex) == IF WritesTable(ex) THEN _write_table(ex.stream, StreamKey(ex)) ELSE <<>>

\* output: the metadata lines, a blank line when a table follows them, the table
Output(meta_lines, table_lines) ==
    meta_lines
    \o (IF Len(table_lines) > 0 /\ Len(meta_lines) > 0 THEN << <<>> >> ELSE <<>>)
    \o table_lines

\* encode after _extract_primary_stream has returned ex
EncodeFrom(data, ex) ==
    IF Len(ex.stream) = 0 /\ Len(ex.metadata) = 0
    THEN [text |-> JsonDumps(data, FALSE, <<",">>, <<":">>), fallback |-> TRUE,
          stream_key |-> <<>>, metadata |-> <<>>, meta_lines |-> <<>>,
          table_lines |-> <<>>]
    ELSE [text |-> Join(Output(MetaLinesOf(ex), TableLinesOf(ex)), <<"\n">>),
          fallback |-> FALSE,
          stream_key |-> StreamKey(ex), metadata |-> ex.metadata,
          meta_lines |-> MetaLinesOf(ex), table_lines |-> TableLinesOf(ex)]

\* ZonEncoder.encode: the text and the intermediate results it is built from
encode(data) == EncodeFrom(data, _extract_primary_stream(data))

(***************************************************************************)
(* csv.reader([line]) with the default dialect: the fields of one line.    *)
(* ok is FALSE when the reader raises csv.Error (a carriage return in an   *)
(* unquoted position that is followed by more text).                       *)
(***************************************************************************)
RECURSIVE CsvScan(_, _, _, _, _)
CsvScan(s, i, state, field, fields) ==
    IF i > Len(s)
    THEN [ok |-> TRUE,
          tokens |-> IF state \in {"START_RECORD", "EAT_CRNL"} THEN fields
                     ELSE Append(fields, field)]
    ELSE LET c == s[i]
         IN  CASE state \in {"START_RECORD", "START_FIELD"} ->
                    IF c \in {"\n", "\r"}
                    THEN CsvScan(s, i + 1, "EAT_CRNL", <<>>,
                                 IF state = "START_FIELD" THEN Append(fields, <<>>) ELSE fields)
                    ELSE IF c = "\"" THEN CsvScan(s, i + 1, "IN_QUOTED_FIELD", <<>>, fields)
                    ELSE IF c = "," THEN CsvScan(s, i + 1, "START_FIELD", <<>>, Append(fields, <<>>))
                    ELSE CsvScan(s, i + 1, "IN_FIELD", <<c>>, fields)
               [] state = "IN_FIELD" ->
                    IF c \in {"\n", "\r"}
                    THEN CsvScan(s, i + 1, "EAT_CRNL", <<>>, Append(fields, field))
                    ELSE IF c = "," THEN CsvScan(s, i + 1, "START_FIELD", <<>>, Append(fields, field))
                    ELSE CsvScan(s, i + 1, "IN_FIELD", Append(field, c), fields)
               [] state = "IN_QUOTED_FIELD" ->
                    IF c = "\"" THEN CsvScan(s, i + 1, "QUOTE_IN_QUOTED_FIELD", field, fields)
                    ELSE CsvScan(s, i + 1, "IN_QUOTED_FIELD", Append(field, c), fields)
               [] state = "QUOTE_IN_QUOTED_FIELD" ->
                    IF c = "\"" THEN CsvScan(s, i + 1, "IN_QUOTED_FIELD", Append(field, c), fields)
                    ELSE IF c = "," THEN CsvScan(s, i + 1, "START_FIELD", <<>>, Append(fields, field))
                    ELSE IF c \in {"\n", "\r"}
                    THEN CsvScan(s, i + 1, "EAT_CRNL", <<>>, Append(fields, field))
                    ELSE CsvScan(s, i + 1, "IN_FIELD", Append(field, c), fields)
               [] state = "EAT_CRNL" ->
                    IF c \in {"\n", "\r"} THEN CsvScan(s, i + 1, "EAT_CRNL", <<>>, fields)
                    ELSE [ok |-> FALSE, tokens |-> <<>>]

CsvReadLine(line) == CsvScan(line, 1, "START_RECORD", <<>>, <<>>)

(***************************************************************************)
(* json.loads of a text that starts with a double quote: a JSON string     *)
(* literal followed by nothing but white space.  Escapes that denote a     *)
(* character outside AsciiOrder (\b, \f, \uXXXX) are outside the model.    *)
(***************************************************************************)
RECURSIVE JsonScan(_, _, _)
JsonScan(s, i, acc) ==
    IF i > Len(s) THEN [ok |-> FALSE, s |-> <<>>]
    ELSE IF s[i] = "\""
    THEN [ok |-> \A j \in (i + 1)..Len(s) : s[j] \in WhiteSpace, s |-> acc]
    ELSE IF s[i] = "\\"
    THEN IF i + 1 > Len(s) THEN [ok |-> FALSE, s |-> <<>>]
         ELSE CASE s[i + 1] = "\"" -> JsonScan(s, i + 2, Append(acc, "\""))
                [] s[i + 1] = "\\" -> JsonScan(s, i + 2, Append(acc, "\\"))
                [] s[i + 1] = "/" -> JsonScan(s, i + 2, Append(acc, "/"))
                [] s[i + 1] = "n" -> JsonScan(s, i + 2, Append(acc, "\n"))
                [] s[i + 1] = "r" -> JsonScan(s, i + 2, Append(acc, "\r"))
                [] s[i + 1] = "t" -> JsonScan(s, i + 2, Append(acc, "\t"))
                [] OTHER -> [ok |-> FALSE, s |-> <<>>]
    ELSE IF s[i] \in {"\n", "\r", "\t"} THEN [ok |-> FALSE, s |-> <<>>]
    ELSE JsonScan(s, i + 1, Append(acc, s[i]))

JsonLoadsStr(text) == JsonScan(text, 2, <<>>)

(***************************************************************************)
(* ZonDecoder: the cell parsers.                                           *)
(***************************************************************************)
Quote == "\""
Openers == {"[", "{"}
Closers == {"]", "}"}

\* in_quote after the loop of _parse_zon_node has looked at char
ToggleQuote(char, current, in_quote) ==
    IF char = Quote /\ (Len(current) = 0 \/ current[Len(current)] # "\\")
    THEN ~in_quote ELSE in_quote

\* the list loop: the texts of the items handed to the recursive calls
RECURSIVE ListScan(_, _, _, _, _, _)
ListScan(content, i, depth, in_quote, current_item, items) ==
    IF i > Len(content)
    THEN (IF Len(current_item) > 0 THEN Append(items, current_item) ELSE items)
    ELSE LET char == content[i]
             q == ToggleQuote(char, current_item, in_quote)
         IN  IF ~q /\ char \in Openers
             THEN ListScan(content, i + 1, depth + 1, q, Append(current_item, char), items)
             ELSE IF ~q /\ char \in Closers
             THEN ListScan(content, i + 1, depth - 1, q, Append(current_item, char), items)
             ELSE IF ~q /\ char = "," /\ depth = 0
             THEN ListScan(content, i + 1, depth, q, <<>>, Append(items, current_item))
             ELSE ListScan(content, i + 1, depth, q, Append(current_item, char), items)

\* json.loads(key_str) of a key that starts with a quote, key_str when it fails
UnquoteKey(key_str) ==
    IF StartsWith(key_str, <<Quote>>) /\ JsonLoadsStr(key_str).ok
    THEN JsonLoadsStr(key_str).s ELSE key_str

\* the key of a dict entry from the text before the colon
NodeKey(current_part) == UnquoteKey(Strip(current_part))

\* the dict loop: the (key, value text) assignments in the order they are made
RECURSIVE DictScan(_, _, _, _, _, _, _, _)
DictScan(content, i, depth, in_quote, current_part, has_key, current_key, items) ==
    IF i > Len(content)
    THEN (IF has_key THEN Append(items, KV(current_key, current_part)) ELSE items)
    ELSE LET char == content[i]
             q == ToggleQuote(char, current_part, in_quote)
         IN  IF ~q /\ char \in Openers
             THEN DictScan(content, i + 1, depth + 1, q, Append(current_part, char),
                           has_key, current_key, items)
             ELSE IF ~q /\ char \in Closers
             THEN DictScan(content, i + 1, depth - 1, q, Append(current_part, char),
                           has_key, current_key, items)
             ELSE IF ~q /\ char = ":" /\ depth = 0 /\ ~has_key
             THEN DictScan(content, i + 1, depth, q, <<>>, TRUE, NodeKey(current_part), items)
             ELSE IF ~q /\ char = "," /\ depth = 0
             THEN (IF has_key
                   THEN DictScan(content, i + 1, depth, q, <<>>, FALSE, <<>>,
                                 Append(items, KV(current_key, current_part)))
                   ELSE DictScan(content, i + 1, depth, q, current_part, FALSE, <<>>, items))
             ELSE DictScan(content, i + 1, depth, q, Append(current_part, char),
                           has_key, current_key, items)

RECURSIVE _parse_zon_node(_)

\* the items of a list node from the texts the list loop cut out
ParseItems(parts) == [j \in 1..Len(parts) |-> _parse_zon_node(parts[j])]

\* the entries of a dict node from the assignments the dict loop made
ParseEntries(parts) ==
    DictFromItems([j \in 1..Len(parts) |-> KV(parts[j].k, _parse_zon_node(parts[j].v))])

\* text[1:-1]
Inner(text) == Slice(text, 2, Len(text) - 1)

\* _parse_zon_node after text = text.strip()
ParseNode(text) ==
    IF Len(text) = 0 THEN VNull
    ELSE IF text = <<"T">> THEN VBool(TRUE)
    ELSE IF text = <<"F">> THEN VBool(FALSE)
    ELSE IF text = <<"n", "u", "l", "l">> THEN VNull
    ELSE IF IsDigitStr(text) THEN VInt(IntValue(text))
    ELSE IF IsFloatLiteral(text) THEN FloatValue(text)
    ELSE IF StartsWith(text, <<Quote>>)
    THEN (IF JsonLoadsStr(text).ok THEN VStr(JsonLoadsStr(text).s) ELSE VStr(text))
    ELSE IF StartsWith(text, <<"[">>) /\ EndsWith(text, <<"]">>)
    THEN (IF Len(Strip(Inner(text))) = 0 THEN VList(<<>>)
          ELSE VList(ParseItems(ListScan(Inner(text), 1, 0, FALSE, <<>>, <<>>))))
    ELSE IF StartsWith(text, <<"{">>) /\ EndsWith(text, <<"}">>)
    THEN (IF Len(Strip(Inner(text))) = 0 THEN VDict(<<>>)
          ELSE VDict(ParseEntries(
                        DictScan(Inner(text), 1, 0, FALSE, <<>>, FALSE, <<>>, <<>>))))
    ELSE VStr(text)

_parse_zon_node(text) == ParseNode(Strip(text))

\* _parse_value after val = val.strip()
ParseCell(val) ==
    IF Len(val) = 0 THEN VNull
    ELSE IF val = <<"T">> THEN VBool(TRUE)
    ELSE IF val = <<"F">> THEN VBool(FALSE)
    ELSE IF val = <<"n", "u", "l", "l">> THEN VNull
    ELSE IF \/ StartsWith(val, <<"{">>) /\ EndsWith(val, <<"}">>)
            \/ StartsWith(val, <<"[">>) /\ EndsWith(val, <<"]">>)
    THEN _parse_zon_node(val)
    ELSE IF Contains(val, ".") /\ IsFloatLiteral(val) THEN FloatValue(val)
    ELSE IF ~Contains(val, ".") /\ IsIntLiteral(val) THEN VInt(IntValue(val))
    ELSE IF StartsWith(val, <<Quote>>) /\ EndsWith(val, <<Quote>>) /\ JsonLoadsStr(val).ok
    THEN VStr(JsonLoadsStr(val).s)
    ELSE VStr(val)

_parse_value(val) == ParseCell(Strip(val))

(***************************************************************************)
(* ZonDecoder._unflatten.  The dict that the code mutates through `target` *)
(* is rebuilt along the path walked; err is TRUE when the walk raises      *)
(* (TypeError, AttributeError or KeyError on a value that is not the       *)
(* container the code expects).                                            *)
(***************************************************************************)
Padded(items, idx) ==
    items \o [j \in 1..Max(0, idx + 1 - Len(items)) |-> VDict(<<>>)]

\* target[final_key] = value unless final_key is all digits
FinalAssign(target, final_key, value) ==
    IF ~IsDigitStr(final_key) THEN DictSet(target, final_key, value) ELSE target

\* the body of the loop over parts[:-1] from position i, and the final
\* assignment; target is the entries of the dict that `target` refers to
RECURSIVE UnflattenWalk(_, _, _, _)
UnflattenWalk(target, parts, i, value) ==
    IF i > Len(parts) - 1
    THEN [err |-> FALSE, kv |-> FinalAssign(target, parts[Len(parts)], value)]
    ELSE LET part == parts[i]
             next_part == parts[i + 1]
         IN  IF IsDigitStr(next_part)
             THEN LET idx == IntValue(next_part)
                      cur == IF DictHas(target, part) THEN DictGet(target, part) ELSE VList(<<>>)
                      popped == Take(parts, i) \o Drop(parts, i + 1)
                      final_key == popped[Len(popped)]
                  IN  IF cur.t = "list"
                      THEN LET items == Padded(cur.items, idx)
                               elem == items[idx + 1]
                           IN  IF IsDigitStr(final_key)
                               THEN [err |-> FALSE, kv |-> DictSet(target, part, VList(items))]
                               ELSE IF elem.t = "dict"
                               THEN [err |-> FALSE,
                                     kv |-> DictSet(target, part,
                                              VList([items EXCEPT ![idx + 1] =
                                                  VDict(DictSet(elem.kv, final_key, value))]))]
                               ELSE [err |-> TRUE, kv |-> target]
                      ELSE IF cur.t = "str" /\ Len(cur.s) > idx /\ IsDigitStr(final_key)
                      THEN [err |-> FALSE, kv |-> target]
                      ELSE [err |-> TRUE, kv |-> target]
             ELSE LET t1 == IF DictHas(target, part) THEN target
                            ELSE DictSet(target, part, VDict(<<>>))
                      sub == DictGet(t1, part)
                  IN  IF sub.t = "dict"
                      THEN LET r == UnflattenWalk(sub.kv, parts, i + 1, value)
                           IN  [err |-> r.err, kv |-> DictSet(t1, part, VDict(r.kv))]
                      ELSE [err |-> FALSE, kv |-> FinalAssign(t1, parts[Len(parts)], value)]

\* one iteration of the loop over d.items()
UnflattenKey(result, key, value) ==
    IF ~Contains(key, ".") THEN [err |-> FALSE, kv |-> DictSet(result, key, value)]
    ELSE UnflattenWalk(result, SplitOn(key, "."), 1, value)

\* the loop over d.items() from entry i on; it stops where the walk raises
RECURSIVE UnflattenLoop(_, _, _)
UnflattenLoop(d, i, acc) ==
    IF i > Len(d) \/ acc.err THEN acc
    ELSE UnflattenLoop(d, i + 1, UnflattenKey(acc.kv, d[i].k, d[i].v))

_unflatten(d) == UnflattenLoop(d, 1, [err |-> FALSE, kv |-> <<>>])

(***************************************************************************)
(* ZonDecoder: tables.                                                     *)
(***************************************************************************)
\* index after the longest run of characters of S that starts at i
RECURSIVE RunEnd(_, _, _)
RunEnd(s, i, S) == IF i <= Len(s) /\ s[i] \in S THEN RunEnd(s, i + 1, S) ELSE i

\* the groups of a match whose name ends before position a and whose count
\* ends before position b
HeaderOk(line, a, b) ==
    /\ StartsWith(line, TABLE_MARKER)
    /\ a > 2
    /\ a <= Len(line) /\ line[a] = "("
    /\ b > a + 1
    /\ b <= Len(line) /\ line[b] = ")"
    /\ Slice(line, b + 1, b + Len(META_SEPARATOR)) = META_SEPARATOR
    /\ Len(line) > b + Len(META_SEPARATOR)

HeaderGroups(line, a, b) ==
    [ok |-> HeaderOk(line, a, b),
     name |-> IF HeaderOk(line, a, b) THEN Slice(line, 2, a - 1) ELSE <<>>,
     count |-> IF HeaderOk(line, a, b) THEN IntValue(Slice(line, a + 1, b - 1)) ELSE 0,
     cols_str |-> IF HeaderOk(line, a, b) THEN Drop(line, b + Len(META_SEPARATOR)) ELSE <<>>]

\* re.match(r'^@(\w+)\((\d+)\): (.+)$', line)
HeaderMatch(line) ==
    HeaderGroups(line, RunEnd(line, 2, WordChars),
                 RunEnd(line, RunEnd(line, 2, WordChars) + 1, DigitSet))

\* [c.strip() for c in cols_str.split(',')]
HeaderCols(pieces) == [i \in 1..Len(pieces) |-> Strip(pieces[i])]

TableInfo(cols, count) ==
    [cols |-> cols,
     rows |-> <<>>,
     prev_vals |-> DictFromItems([i \in 1..Len(cols) |-> KV(cols[i], VNull)]),
     row_index |-> 0,
     expected_rows |-> count]

\* the table_info dict of a header that matches
_parse_table_header(line) ==
    TableInfo(HeaderCols(SplitOn(HeaderMatch(line).cols_str, ",")), HeaderMatch(line).count)

\* one cell of a row: the value for the token, given prev_vals[col]
ReadCell(tok, prev, row_idx) ==
    IF tok = GAS_TOKEN
    THEN IF prev.t = "fspecial" THEN prev
         ELSE IF IsNumOrBool(prev) THEN NumAdd(prev, VInt(1))
         ELSE VInt(row_idx + 1)
    ELSE IF tok = LIQUID_TOKEN THEN prev
    ELSE _parse_value(tok)

\* while len(tokens) < len(table['cols']): tokens.append('')
PadTokens(tokens, n) == tokens \o [j \in 1..Max(0, n - Len(tokens)) |-> <<>>]

\* row[col] = val; prev_vals[col] = val
SetCell(acc, col, val) ==
    [row |-> DictSet(acc.row, col, val), prev_vals |-> DictSet(acc.prev_vals, col, val)]

\* the loop over zip(table['cols'], tokens) from position i on
RECURSIVE ReadCells(_, _, _, _)
ReadCells(table, tokens, i, acc) ==
    IF i > Min(Len(table.cols), Len(tokens)) THEN acc
    ELSE ReadCells(table, tokens, i + 1,
            SetCell(acc, table.cols[i],
                    ReadCell(tokens[i], DictGet(acc.prev_vals, table.cols[i]),
                             table.row_index)))

\* the table after the row and prev_vals in r have been stored
RowAdded(table, r) ==
    [table EXCEPT !.rows = Append(@, r.row),
                  !.prev_vals = r.prev_vals,
                  !.row_index = @ + 1]

\* _parse_table_row after csv.reader has returned
ParseRowTokens(csv, table) ==
    IF ~csv.ok THEN [err |-> TRUE, table |-> table]
    ELSE [err |-> FALSE,
          table |-> RowAdded(table,
                      ReadCells(table, PadTokens(csv.tokens, Len(table.cols)), 1,
                                [row |-> <<>>, prev_vals |-> table.prev_vals]))]

\* the table after one more row line; err when csv.reader raises
_parse_table_row(line, table) == ParseRowTokens(CsvReadLine(line), table)

\* the list of the unflattened rows rs
TableValue(rs) ==
    [err |-> \E i \in 1..Len(rs) : rs[i].err,
     v |-> VList([i \in 1..Len(rs) |-> VDict(rs[i].kv)])]

\* [self._unflatten(row) for row in table['rows']]
_reconstruct_table(table) ==
    TableValue([i \in 1..Len(table.rows) |-> _unflatten(table.rows[i])])

\* metadata[table_name] = r
MergeTable(acc, table_name, r) ==
    [err |-> acc.err \/ r.err, kv |-> DictSet(acc.kv, table_name, r.v)]

\* the loop over tables.items() from table i on
RECURSIVE MergeTables(_, _, _)
MergeTables(acc, tbls, i) ==
    IF i > Len(tbls) THEN acc
    ELSE MergeTables(MergeTable(acc, tbls[i].k, _reconstruct_table(tbls[i].v)), tbls, i + 1)

\* result = self._unflatten(metadata)
UnflattenMerged(merged) == IF merged.err THEN merged ELSE _unflatten(merged.kv)

\* the unwrap of a result whose only key is 'data' and holds a list
Unwrap(result) ==
    IF result.err THEN [err |-> TRUE, v |-> VNull]
    ELSE IF /\ Len(result.kv) = 1
            /\ DictHas(result.kv, DATA_KEY)
            /\ DictGet(result.kv, DATA_KEY).t = "list"
    THEN [err |-> FALSE, v |-> DictGet(result.kv, DATA_KEY)]
    ELSE [err |-> FALSE, v |-> VDict(result.kv)]

\* the tail of decode: tables merged into metadata, unflatten, unwrap
DecodeResult(meta, tbls) ==
    Unwrap(UnflattenMerged(MergeTables([err |-> FALSE, kv |-> meta], tbls, 1)))

(***************************************************************************)
(* The state: one encode call on data followed by one decode call on its   *)
(* text, the decoder taking one line per step.                             *)
(***************************************************************************)
VARIABLES data, enc, pc, lines, metadata, tables, current_table,
          current_table_name, result, err, again

vars == <<data, enc, pc, lines, metadata, tables, current_table,
          current_table_name, result, err, again>>

\* again: the text returned by a second encode call on data, once made
NotCalled == [called |-> FALSE, text |-> <<>>]

NoEncoding == [text |-> <<>>, fallback |-> FALSE, stream_key |-> <<>>,
               metadata |-> <<>>, meta_lines |-> <<>>, table_lines |-> <<>>]

Encode ==
    /\ pc = "start"
    /\ enc' = encode(data)
    /\ pc' = "encoded"
    /\ UNCHANGED <<again, data, lines, metadata, tables, current_table,
                   current_table_name, result, err>>

\* decode up to the loop over the lines
DecodeStart ==
    /\ pc = "encoded"
    /\ IF Len(enc.text) = 0
       THEN /\ result' = VDict(<<>>)
            /\ pc' = "done"
            /\ UNCHANGED lines
       ELSE /\ lines' = SplitOn(Strip(enc.text), "\n")
            /\ pc' = "lines"
            /\ UNCHANGED result
    /\ UNCHANGED <<again, data, enc, metadata, tables, current_table, current_table_name, err>>

current_line == RStrip(Head(lines))
AtLine == pc = "lines" /\ Len(lines) > 0
IsHeaderLine == StartsWith(current_line, TABLE_MARKER)
\* a row test that does not look at the number of rows read
IsRowLineAnyCount == current_table
IsRowLine ==
    /\ current_table
    /\ DictGet(tables, current_table_name).row_index
         < DictGet(tables, current_table_name).expected_rows
IsMetaLine == Find(current_line, META_SEPARATOR) > 0

SkipBlank ==
    /\ AtLine
    /\ Len(current_line) = 0
    /\ lines' = Tail(lines)
    /\ UNCHANGED <<again, data, enc, pc, metadata, tables, current_table,
                   current_table_name, result, err>>

TableHeader ==
    /\ AtLine
    /\ Len(current_line) > 0
    /\ IsHeaderLine
    /\ IF HeaderMatch(current_line).ok
       THEN /\ current_table_name' = HeaderMatch(current_line).name
            /\ current_table' = TRUE
            /\ tables' = DictSet(tables, HeaderMatch(current_line).name, _parse_table_header(current_line))
            /\ lines' = Tail(lines)
            /\ UNCHANGED <<pc, err>>
       ELSE /\ pc' = "error"
            /\ err' = "ZonDecodeError"
            /\ UNCHANGED <<lines, tables, current_table, current_table_name>>
    /\ UNCHANGED <<again, data, enc, metadata, result>>

TableRow ==
    /\ AtLine
    /\ Len(current_line) > 0
    /\ ~IsHeaderLine
    /\ IsRowLine
    /\ \E r \in {_parse_table_row(current_line, DictGet(tables, current_table_name))} :
           IF r.err
           THEN /\ pc' = "error"
                /\ err' = "Error"
                /\ UNCHANGED <<lines, tables, current_table>>
           ELSE /\ tables' = DictSet(tables, current_table_name, r.table)
                /\ current_table' = (r.table.row_index < r.table.expected_rows)
                /\ lines' = Tail(lines)
                /\ UNCHANGED <<pc, err>>
    /\ UNCHANGED <<again, data, enc, metadata, current_table_name, result>>

MetadataLine ==
    /\ AtLine
    /\ Len(current_line) > 0
    /\ ~IsHeaderLine
    /\ ~IsRowLine
    /\ IsMetaLine
    /\ \E at \in {Find(current_line, META_SEPARATOR)} :
           metadata' = DictSet(metadata, Strip(Take(current_line, at - 1)),
                               _parse_value(Strip(Drop(current_line,
                                                       at - 1 + Len(META_SEPARATOR)))))
    /\ current_table' = FALSE
    /\ lines' = Tail(lines)
    /\ UNCHANGED <<again, data, enc, pc, tables, current_table_name, result, err>>

IgnoreLine ==
    /\ AtLine
    /\ Len(current_line) > 0
    /\ ~IsHeaderLine
    /\ ~IsRowLine
    /\ ~IsMetaLine
    /\ lines' = Tail(lines)
    /\ UNCHANGED <<again, data, enc, pc, metadata, tables, current_table,
                   current_table_name, result, err>>

\* decode after the loop
DecodeFinish ==
    /\ pc = "lines"
    /\ Len(lines) = 0
    /\ \E r \in {DecodeResult(metadata, tables)} :
           IF r.err
           THEN /\ pc' = "error"
                /\ err' = "Error"
                /\ UNCHANGED result
           ELSE /\ pc' = "done"
                /\ result' = r.v
                /\ UNCHANGED err
    /\ UNCHANGED <<again, data, enc, lines, metadata, tables, current_table, current_table_name>>

\* a second encode call on the same Value, before or after the decode call on
\* the text of the first.
\* encode reads its argument and nothing else: a ZonEncoder holds
\* anchor_interval and _safe_str_re, which encode never assigns, and
\* col_analysis, prev_vals and the row index are locals of _write_table
EncodeAgain ==
    /\ pc \in {"encoded", "done", "error"}
    /\ ~again.called
    /\ again' = [called |-> TRUE, text |-> encode(data).text]
    /\ UNCHANGED <<data, enc, pc, lines, metadata, tables, current_table,
                   current_table_name, result, err>>

Next ==
    \/ Encode
    \/ EncodeAgain
    \/ DecodeStart
    \/ SkipBlank
    \/ TableHeader
    \/ TableRow
    \/ MetadataLine
    \/ IgnoreLine
    \/ DecodeFinish

(***************************************************************************)
(* The Values the model encodes.  A stream has one column a and at most    *)
(* MaxRows rows when its cells come from CoreCells, at most MaxRichRows    *)
(* rows when they come from one of the other families of cells; an Object  *)
(* root has at most MaxEntries entries.                                    *)
(***************************************************************************)
MaxRows == 3
MaxRichRows == 2
MaxEntries == 2

K_a == <<"a">>
K_b == <<"b">>
K_c == <<"c">>
K_d == <<"d">>
K_m == <<"m">>
K_n == <<"n">>
K_empty == <<>>
K_items == <<"i", "t", "e", "m", "s">>
K_id == <<"i", "d">>
K_status == <<"s", "t", "a", "t", "u", "s">>

S_ok == VStr(<<"o", "k">>)
S_123 == VStr(<<"1", "2", "3">>)
S_12_34 == VStr(<<"1", "2", ".", "3", "4">>)
S_minus5 == VStr(<<"-", "5">>)
S_T == VStr(<<"T">>)
S_F == VStr(<<"F">>)
S_null == VStr(<<"n", "u", "l", "l">>)
S_gas == VStr(GAS_TOKEN)
S_liquid == VStr(LIQUID_TOKEN)
S_empty == VStr(<<>>)
S_newline == VStr(<<"x", "\n", "y">>)
S_return == VStr(<<"x", "\r", "y">>)
S_braces == VStr(<<"{", "o", "k", "}">>)
S_brackets == VStr(<<"[", "x", "]">>)
S_quoted == VStr(<<"\"", "o", "k", "\"">>)

Obj1(k, v) == VDict(<<KV(k, v)>>)
Obj2(k1, v1, k2, v2) == VDict(<<KV(k1, v1), KV(k2, v2)>>)

CoreCells ==
    { VInt(1), VInt(3), VBool(TRUE), S_123,
      VList(<<VInt(1)>>), VList(<<VBool(TRUE)>>) }

\* strings that read like a number or a token, next to what they read like
AmbiguousCells ==
    { S_123, S_12_34, S_minus5, S_T, S_F, S_null, S_gas, S_liquid,
      VInt(123), VBool(TRUE) }

\* numbers of both subtypes, null and plain strings
NumberCells ==
    { VInt(1), VInt(-3), VFloat(15, 1), VFloat(7, 0), VList(<<VInt(-3)>>),
      VNull, S_ok, S_empty }

\* bools, and Objects that become dotted columns
ObjectCells ==
    { VBool(TRUE), VBool(FALSE), VInt(1), VNull,
      Obj1(K_c, VBool(TRUE)), Obj1(K_c, VInt(1)) }

RichCells == CoreCells \cup AmbiguousCells \cup NumberCells \cup ObjectCells

\* strings with a line break in them
LineCells == { S_newline, S_return, S_ok, VInt(1) }

\* strings that begin and end like an Object, an Array or a quoted string
QuoteCells == { S_braces, S_brackets, S_quoted, S_ok }

\* Arrays that hold a string that reads like a number or a token
NodeCells ==
    { VList(<<S_123>>), VList(<<S_minus5>>), VList(<<S_T>>), VList(<<S_null>>),
      VList(<<Obj1(K_c, S_F)>>) }

\* values of an Object cell, which a row holds two levels down
DeepCells == { Obj1(K_c, VBool(TRUE)), Obj1(K_c, VInt(1)), VInt(1) }

\* what a cell of a sparse row holds; Absent stands for a missing key
Absent == [t |-> "absent"]
SparseA == { Absent, S_ok }
SparseB == { Absent, VInt(1) }

MetaVals ==
    RichCells \cup
    { VList(<<VInt(1), VInt(2)>>), VList(<<>>), VDict(<<>>),
      Obj1(K_n, VInt(1)), Obj1(K_n, VFloat(7, 0)),
      Obj1(K_n, Obj1(K_c, VInt(1))),
      Obj1(K_n, Obj1(K_c, VInt(-3))),
      Obj1(K_n, Obj2(K_c, VInt(1), K_d, VBool(TRUE))) }

\* values of the entries of an Object root with several stream candidates
EntryVals ==
    { VInt(1), VList(<<VInt(1)>>),
      VList(<<Obj1(K_a, VInt(1))>>),
      VList(<<Obj1(K_a, VInt(1)), Obj1(K_a, VInt(2))>>),
      VList(<<Obj2(K_a, VInt(1), K_b, VInt(2))>>) }
EntryKeys == { K_a, DATA_KEY, K_empty }

\* the sequences over S of length 1..n
SeqsUpTo(S, n) == UNION {[1..k -> S] : k \in 1..n}

SparseRow(a, b) ==
    VDict((IF a = Absent THEN <<>> ELSE <<KV(K_a, a)>>)
          \o (IF b = Absent THEN <<>> ELSE <<KV(K_b, b)>>))

StreamsOver(cells, n) ==
    {VList([i \in 1..Len(cs) |-> Obj1(K_a, cs[i])]) : cs \in SeqsUpTo(cells, n)}
DeepStreams ==
    {VList([i \in 1..Len(cs) |-> Obj1(K_a, Obj1(K_b, cs[i]))]) :
        cs \in SeqsUpTo(DeepCells, MaxRows)}
SparseStreams ==
    {VList([i \in 1..Len(rs) |-> SparseRow(rs[i][1], rs[i][2])]) :
        rs \in SeqsUpTo(SparseA \X SparseB, MaxRows)}

\* records with an id and a status
IdCells == {VInt(1), VInt(2), VInt(3)}
IdStreams ==
    {VList([i \in 1..Len(ids) |-> Obj2(K_id, ids[i], K_status, S_ok)]) :
        ids \in SeqsUpTo(IdCells, MaxRows)}

MetaRoots ==
    {Obj1(K_m, v) : v \in MetaVals}
    \cup {Obj2(K_m, v, K_items, VList(<<Obj1(K_a, VInt(1))>>)) : v \in MetaVals}

TextRoots == {Obj1(K_m, v) : v \in QuoteCells \cup NodeCells}

EntryRoots ==
    {VDict([i \in 1..Len(es) |-> KV(es[i][1], es[i][2])]) :
        es \in {e \in SeqsUpTo(EntryKeys \X EntryVals, MaxEntries) :
                  \A i, j \in 1..Len(e) : i # j => e[i][1] # e[j][1]}}

BareRoots ==
    { VNull, VBool(TRUE), VInt(5), VFloat(15, 1), S_ok,
      VList(<<>>), VDict(<<>>), VList(<<VInt(1)>>) }

Universe ==
    StreamsOver(CoreCells, MaxRows)
    \cup StreamsOver(AmbiguousCells, MaxRichRows)
    \cup StreamsOver(NumberCells, MaxRichRows)
    \cup StreamsOver(ObjectCells, MaxRichRows)
    \cup StreamsOver(LineCells, MaxRichRows)
    \cup StreamsOver(QuoteCells, MaxRichRows)
    \cup StreamsOver(NodeCells, MaxRichRows)
    \cup DeepStreams \cup SparseStreams \cup IdStreams
    \cup MetaRoots \cup TextRoots \cup EntryRoots \cup BareRoots

Init ==
    /\ data \in Universe
    /\ enc = NoEncoding
    /\ pc = "start"
    /\ lines = <<>>
    /\ metadata = <<>>
    /\ tables = <<>>
    /\ current_table = FALSE
    /\ current_table_name = <<>>
    /\ result = VNull
    /\ err = "none"
    /\ again = NotCalled

Spec == Init /\ [][Next]_vars

(***************************************************************************)
(* decode on a text of its own: at most MaxLines lines, each one of the    *)
(* lines below (headers that match the grammar and one that does not, row  *)
(* cells, metadata lines, a blank line).                                   *)
(***************************************************************************)
MaxLines == 3

L_header2 == <<"@", "t", "(", "2", ")", ":", " ", "a">>
L_header1 == <<"@", "t", "(", "1", ")", ":", " ", "a">>
L_header0 == <<"@", "t", "(", "0", ")", ":", " ", "a", ",", "b">>
L_badheader == <<"@", "b", "a", "d">>
L_one == <<"1">>
L_gas == GAS_TOKEN
L_liquid == LIQUID_TOKEN
L_false == <<"F">>
L_meta == <<"m", ":", " ", "1">>
L_dotted == <<"m", ".", "0", ":", " ", "2">>
L_blank == <<>>

TextLines ==
    { L_header2, L_header1, L_header0, L_badheader, L_one, L_gas, L_liquid, L_false,
      L_meta, L_dotted, L_blank }

Texts == {Join(ls, <<"\n">>) : ls \in SeqsUpTo(TextLines, MaxLines)}

\* decode(zon_str) is called with the text t
GivenText(t) == [NoEncoding EXCEPT !.text = t]

DecInit ==
    /\ data = VNull
    /\ enc \in {GivenText(t) : t \in Texts}
    /\ pc = "encoded"
    /\ lines = <<>>
    /\ metadata = <<>>
    /\ tables = <<>>
    /\ current_table = FALSE
    /\ current_table_name = <<>>
    /\ result = VNull
    /\ err = "none"
    /\ again = NotCalled

DecNext ==
    \/ DecodeStart
    \/ SkipBlank
    \/ TableHeader
    \/ TableRow
    \/ MetadataLine
    \/ IgnoreLine
    \/ DecodeFinish

DecSpec == DecInit /\ [][DecNext]_vars

(***************************************************************************)
(* _flatten and _unflatten on their own: an Object is flattened and the    *)
(* flat mapping unflattened, or a flat mapping with dotted keys of at most *)
(* MaxFlatKeys entries is given to _unflatten directly.                    *)
(***************************************************************************)
MaxFlatKeys == 2

K_meta == <<"m", "e", "t", "a">>
Dotted(segments) == Join(segments, <<".">>)

FlatKeys ==
    { K_a,
      Dotted(<<K_a, K_b>>),
      Dotted(<<K_items, <<"0">>, K_id>>),
      Dotted(<<K_items, <<"1">>, K_id>>),
      Dotted(<<K_items, <<"0">>, K_meta, K_id>>),
      Dotted(<<K_items, <<"0">>>>),
      Dotted(<<K_a, <<"0">>, <<"1">>>>),
      Dotted(<<K_a, K_b, <<"0">>>>) }
FlatValues == {VInt(7), Obj1(K_c, VInt(1))}

\* mappings of at most n entries with different keys
DistinctKeys(kv) == \A i, j \in 1..Len(kv) : i # j => kv[i].k # kv[j].k
MappingsOver(keys, vals, n) ==
    {kv \in SeqsUpTo({KV(k, v) : k \in keys, v \in vals}, n) : DistinctKeys(kv)}

FlatDicts == MappingsOver(FlatKeys, FlatValues, MaxFlatKeys)

\* Objects whose keys hold no dot and no digit: scalars, empty Objects and
\* Objects nested one and two levels down
NestedValues ==
    { VInt(1), VDict(<<>>), Obj1(K_c, VInt(1)), Obj1(K_c, VDict(<<>>)),
      Obj1(K_c, Obj1(K_d, VInt(1))) }
NestedObjects == {VDict(kv) : kv \in MappingsOver({K_a, K_b, K_m}, NestedValues, MaxFlatKeys)}

FlatInit ==
    /\ \/ data \in NestedObjects /\ pc = "flatten" /\ metadata = <<>>
       \/ data = VNull /\ pc = "flattened" /\ metadata \in FlatDicts
    /\ enc = NoEncoding
    /\ lines = <<>>
    /\ tables = <<>>
    /\ current_table = FALSE
    /\ current_table_name = <<>>
    /\ result = VNull
    /\ err = "none"
    /\ again = NotCalled

\* flattened = self._flatten(data)
Flatten ==
    /\ pc = "flatten"
    /\ metadata' = _flatten(data, <<>>, 0)
    /\ pc' = "flattened"
    /\ UNCHANGED <<again, data, enc, lines, tables, current_table,
                   current_table_name, result, err>>

\* result = self._unflatten(flattened)
Unflatten ==
    /\ pc = "flattened"
    /\ \E r \in {_unflatten(metadata)} :
           IF r.err
           THEN /\ pc' = "error"
                /\ err' = "Error"
                /\ UNCHANGED result
           ELSE /\ pc' = "done"
                /\ result' = VDict(r.kv)
                /\ UNCHANGED err
    /\ UNCHANGED <<again, data, enc, lines, metadata, tables, current_table,
                   current_table_name>>

FlatNext == Flatten \/ Unflatten

FlatSpec == FlatInit /\ [][FlatNext]_vars

(***************************************************************************)
(* Deep structural equality of Values: the tags agree (a Bool is not a     *)
(* Number, an integer is not a float), Arrays agree element by element and *)
(* Objects agree as mappings, whatever the order of their entries.         *)
(***************************************************************************)
RECURSIVE DeepEq(_, _)
DeepEq(x, y) ==
    IF x.t # y.t THEN FALSE
    ELSE IF x.t = "list" THEN
        /\ Len(x.items) = Len(y.items)
        /\ \A i \in 1..Len(x.items) : DeepEq(x.items[i], y.items[i])
    ELSE IF x.t = "dict" THEN
        /\ DictKeys(x.kv) = DictKeys(y.kv)
        /\ \A i \in 1..Len(x.kv) : DeepEq(x.kv[i].v, DictGet(y.kv, x.kv[i].k))
    ELSE x = y

Finished == pc \in {"done", "error"}

(***************************************************************************)
(* The claims.  A claim about decode(encode(v)) is stated on the states    *)
(* where decode has returned or raised: data is v, result the value        *)
(* returned.                                                               *)
(***************************************************************************)
Returned == pc = "done"

\* the root is a non-empty Array of Objects: the stream of the document
IsStreamRoot ==
    /\ data.t = "list"
    /\ Len(data.items) > 0
    /\ \A i \in 1..Len(data.items) : data.items[i].t = "dict"

\* decode returned an Array with one Object for each row of the root
RowsReturned ==
    /\ Returned
    /\ result.t = "list"
    /\ Len(result.items) = Len(data.items)
    /\ \A i \in 1..Len(result.items) : result.items[i].t = "dict"

\* C1: for every Value tree v, decode(encode(v)) equals v under deep
\* structural equality.
C1_RoundTrip == Finished => (Returned /\ DeepEq(result, data))

\* a String equal to a numeric literal or to a reserved token
IsAmbiguous(v) == v.t = "str" /\ (v.s \in ReservedTokens \/ NumLiteral(v.s).ok)

\* C2: every stream row cell that holds a String equal to a numeric literal
\* or to a reserved token comes back from decode(encode(rows)) as that same
\* String in that cell.
C2_AmbiguousCellsKept ==
    (Finished /\ IsStreamRoot) =>
        \A i \in 1..Len(data.items) : \A j \in 1..Len(data.items[i].kv) :
            IsAmbiguous(data.items[i].kv[j].v) =>
                /\ RowsReturned
                /\ DictHas(result.items[i].kv, data.items[i].kv[j].k)
                /\ DictGet(result.items[i].kv, data.items[i].kv[j].k) = data.items[i].kv[j].v

\* C2 witness: a numeric-literal String that repeats the cell above it, and a
\* reserved token, have been decoded as themselves
C2_Witness ==
    /\ Returned
    /\ \/ data = VList(<<Obj1(K_a, S_123), Obj1(K_a, S_123)>>)
       \/ data = VList(<<Obj1(K_a, S_gas), Obj1(K_a, S_null)>>)
    /\ result = data

\* the first sorted column of the root stream
FirstColumn == TableCols(FlatStream(data.items))[1]
OriginalCell(i, col) == DictGet(_flatten(data.items[i], <<>>, 0), col)
DecodedCell(i, col) == DictGet(_flatten(result.items[i], <<>>, 0), col)

\* the first sorted column holds numbers with one constant difference
HasArithmeticFirstColumn ==
    /\ IsStreamRoot
    /\ Len(data.items) > 1
    /\ TableCols(FlatStream(data.items)) # <<>>
    /\ \A i \in 1..Len(data.items) : IsNum(OriginalCell(i, FirstColumn))
    /\ \A i \in 2..Len(data.items) :
          NumEqual(NumSub(OriginalCell(i, FirstColumn), OriginalCell(i - 1, FirstColumn)),
                   NumSub(OriginalCell(2, FirstColumn), OriginalCell(1, FirstColumn)))

\* C3: when the first sorted column of a stream is an arithmetic sequence
\* with any constant step d, every auto-increment token decodes to the
\* previous value plus d: the decoded column equals the original column.
C3_StepDecoded ==
    (HasArithmeticFirstColumn /\ Finished) =>
        /\ RowsReturned
        /\ \A i \in 1..Len(data.items) :
              /\ IsNum(DecodedCell(i, FirstColumn))
              /\ NumEqual(DecodedCell(i, FirstColumn), OriginalCell(i, FirstColumn))

\* the columns of the table of the root stream, and the keys a row has
RootCols == TableCols(FlatStream(data.items))
RowHas(i, col) == DictHas(_flatten(data.items[i], <<>>, 0), col)

\* the rows of the root stream do not all have the same keys
RowsDiffer ==
    /\ IsStreamRoot
    /\ \E i, j \in 1..Len(data.items) : \E c \in 1..Len(RootCols) :
          RowHas(i, RootCols[c]) /\ ~RowHas(j, RootCols[c])

\* the rows the decoder has read for the table named data
ReadRows == DictGet(tables, DATA_KEY).rows

\* the cell written for column c of row i
WrittenCell(i, c) == CsvReadLine(enc.table_lines[i + 1]).tokens[c]

\* C5: when the rows of a stream have different key sets, a column that a row
\* lacks is written as a null cell (the word null, or the repeat token under
\* a cell that was null as well) and read back as null in that row, never as
\* a non-null value of the previous row; a top-level column is null in the
\* row that decode returns.
C5_MissingIsNull ==
    (Finished /\ RowsDiffer) =>
        /\ RowsReturned
        /\ DictHas(tables, DATA_KEY)
        /\ Len(ReadRows) = Len(data.items)
        /\ \A i \in 1..Len(data.items) : \A c \in 1..Len(RootCols) :
              ~RowHas(i, RootCols[c]) =>
                  /\ \/ WrittenCell(i, c) = <<"n", "u", "l", "l">>
                     \/ /\ WrittenCell(i, c) = LIQUID_TOKEN
                        /\ i > 1
                        /\ DictGet(ReadRows[i - 1], RootCols[c]) = VNull
                  /\ DictHas(ReadRows[i], RootCols[c])
                  /\ DictGet(ReadRows[i], RootCols[c]) = VNull
                  /\ ~Contains(RootCols[c], ".") =>
                        /\ DictHas(result.items[i].kv, RootCols[c])
                        /\ DictGet(result.items[i].kv, RootCols[c]) = VNull

\* C5 witness: the third row lacks column b, whose first two rows repeat a
\* value, and has been decoded with null under b
C5_Witness ==
    /\ Returned
    /\ data = VList(<<Obj1(K_b, VInt(1)), Obj1(K_b, VInt(1)), Obj1(K_a, S_ok)>>)
    /\ result.t = "list"
    /\ Len(result.items) = 3
    /\ DictHas(result.items[3].kv, K_b)
    /\ DictGet(result.items[3].kv, K_b) = VNull

\* a non-empty Array of Objects
IsObjectArray(v) ==
    /\ v.t = "list"
    /\ Len(v.items) > 0
    /\ \A i \in 1..Len(v.items) : v.items[i].t = "dict"

\* entry e of an Object root is the one encode took as the stream
IsPromoted(e) == IsObjectArray(e.v) /\ e.k = enc.stream_key

\* an Array, or an Object that holds a non-empty Object: past the flatten
\* depth when it is the value of an entry of the root
IsNestedNode(v) ==
    \/ v.t = "list"
    \/ /\ v.t = "dict"
       /\ \E i \in 1..Len(v.kv) : v.kv[i].v.t = "dict" /\ Len(v.kv[i].v.kv) > 0

\* C4: for every Object root, a non-promoted entry whose value is an Array or
\* a nested Object beyond the flatten depth comes back from decode(encode(v))
\* as the same Array or Object, not as a String.
C4_NestedMetadataKept ==
    (Finished /\ data.t = "dict") =>
        \A i \in 1..Len(data.kv) :
            (IsNestedNode(data.kv[i].v) /\ ~IsPromoted(data.kv[i])) =>
                /\ Returned
                /\ result.t = "dict"
                /\ DictHas(result.kv, data.kv[i].k)
                /\ PyEq(DictGet(result.kv, data.kv[i].k), data.kv[i].v)

\* at every position that the input o and the decoded value d share, a Bool
\* of o is the same Bool in d and a Number of o is not a Bool in d
RECURSIVE BoolsKept(_, _)
BoolsKept(o, d) ==
    IF o.t = "bool" THEN d = o
    ELSE IF IsNum(o) THEN d.t # "bool"
    ELSE IF o.t = "list" /\ d.t = "list" THEN
        \A i \in 1..Min(Len(o.items), Len(d.items)) : BoolsKept(o.items[i], d.items[i])
    ELSE IF o.t = "dict" /\ d.t = "dict" THEN
        \A i \in 1..Len(o.kv) :
            DictHas(d.kv, o.kv[i].k) => BoolsKept(o.kv[i].v, DictGet(d.kv, o.kv[i].k))
    ELSE TRUE

\* C6: every Bool of the input is decoded as the same Bool, never as 1 or 0,
\* and no Number is decoded as a Bool, in table cells, metadata values and
\* nested cells, also where equal values stand in consecutive rows.
C6_BoolIdentity == Returned => BoolsKept(data, result)

\* at every position that the input o and the decoded value d share, an
\* integer of o is an integer in d and a float of o a float in d
RECURSIVE SubtypesKept(_, _)
SubtypesKept(o, d) ==
    IF IsNum(o) THEN (IsNum(d) => d.t = o.t)
    ELSE IF o.t = "list" /\ d.t = "list" THEN
        \A i \in 1..Min(Len(o.items), Len(d.items)) : SubtypesKept(o.items[i], d.items[i])
    ELSE IF o.t = "dict" /\ d.t = "dict" THEN
        \A i \in 1..Len(o.kv) :
            DictHas(d.kv, o.kv[i].k) => SubtypesKept(o.kv[i].v, DictGet(d.kv, o.kv[i].k))
    ELSE TRUE

\* C7: every integer Number of the input decodes as an integer and every
\* float Number as a float, in table cells, metadata values and nested cells.
C7_NumericSubtype == Returned => SubtypesKept(data, result)

\* the lines of the encoded text that are table headers
HeaderLines == {i \in 1..Len(enc.table_lines) : StartsWith(enc.table_lines[i], TABLE_MARKER)}

\* C8: for every non-empty Array of Objects given as the root, encode writes
\* no metadata line and exactly one table, named data, and decode of the text
\* returns an Array with one Object for each row, not an Object with key data.
C8_RootArray ==
    (IsStreamRoot /\ Finished) =>
        /\ enc.meta_lines = <<>>
        /\ HeaderLines = {1}
        /\ StartsWith(enc.table_lines[1], TABLE_MARKER \o DATA_KEY \o <<"(">>)
        /\ RowsReturned

\* C9: for an Object root whose only entry is the key data holding a non-empty
\* Array of Objects, decode(encode(v)) equals v: an Object with the key data,
\* not the bare Array.
C9_DataObject ==
    (/\ Finished
     /\ data.t = "dict"
     /\ Len(data.kv) = 1
     /\ data.kv[1].k = DATA_KEY
     /\ IsObjectArray(data.kv[1].v)) =>
        /\ Returned
        /\ result.t = "dict"
        /\ DeepEq(result, data)

\* the score of a candidate: rows * (number of keys of the first row)
RowsTimesKeys(v) == Len(v.items) * Len(v.items[1].kv)

\* entry i of the root is the candidate with the greatest score, the first of
\* them in the Object
IsWinner(i) ==
    /\ IsObjectArray(data.kv[i].v)
    /\ \A j \in 1..Len(data.kv) :
          IsObjectArray(data.kv[j].v) =>
              /\ RowsTimesKeys(data.kv[j].v) <= RowsTimesKeys(data.kv[i].v)
              /\ j < i => RowsTimesKeys(data.kv[j].v) < RowsTimesKeys(data.kv[i].v)

\* the entries of the root without entry i
OtherEntries(i) == [j \in 1..(Len(data.kv) - 1) |-> data.kv[IF j < i THEN j ELSE j + 1]]

\* C10: for an Object root, encode promotes exactly the candidate with the
\* greatest score (ties to the first) to the table and writes every other
\* entry as metadata; when no entry qualifies no table is written and the
\* whole Object is metadata.
C10_Promotion ==
    (pc # "start" /\ data.t = "dict" /\ Len(data.kv) > 0) =>
        /\ \A i \in 1..Len(data.kv) :
              IsWinner(i) =>
                  /\ HeaderLines = {1}
                  /\ StartsWith(enc.table_lines[1],
                                TABLE_MARKER \o data.kv[i].k \o <<"(">>
                                  \o IntStr(Len(data.kv[i].v.items)) \o <<")">>)
                  /\ enc.metadata = OtherEntries(i)
        /\ (\A i \in 1..Len(data.kv) : ~IsObjectArray(data.kv[i].v)) =>
              /\ enc.table_lines = <<>>
              /\ enc.metadata = data.kv

\* the lines of the text decode was given, as its loop sees them
InputLines == SplitOn(Strip(enc.text), "\n")
InputLine(i) == RStrip(InputLines[i])

\* the header grammar @name(digits): cols, where the name ends before
\* position a and the digits end before position b
IsHeaderText(line) ==
    \E a \in 3..Len(line) : \E b \in (a + 2)..Len(line) :
        /\ line[1] = "@"
        /\ \A i \in 2..(a - 1) : line[i] \in WordChars
        /\ line[a] = "("
        /\ \A i \in (a + 1)..(b - 1) : line[i] \in DigitSet
        /\ line[b] = ")"
        /\ Len(line) > b + 2
        /\ line[b + 1] = ":"
        /\ line[b + 2] = " "

\* some line of the text starts with the table marker and fails the grammar
HasInvalidHeader ==
    \E i \in 1..Len(InputLines) :
        /\ StartsWith(InputLine(i), TABLE_MARKER)
        /\ ~IsHeaderText(InputLine(i))

\* C11: for every input text, decode raises DecodeError exactly when a line
\* that starts with the table marker fails the header grammar; on every
\* other input it returns a Value and raises no error of any kind.
C11_OnlyHeaderErrors ==
    Finished =>
        IF HasInvalidHeader THEN pc = "error" /\ err = "ZonDecodeError"
        ELSE Returned

\* the root is a bare scalar: Null, a Bool, a Number or a String
IsScalarRoot == data.t \in {"null", "bool", "int", "float", "str"}

\* C12: for every root that is a bare scalar, decode(encode(v)) equals v.
C12_BareScalar == (IsScalarRoot /\ Finished) => (Returned /\ DeepEq(result, data))

\* C13: for every Object root entry that is written as a metadata line and
\* whose value is a String equal to a numeric literal or to a reserved token,
\* decode(encode(v)) returns the same String under that key, never a number,
\* a boolean, null or a String with extra quote characters.
C13_AmbiguousMetadataKept ==
    (Finished /\ data.t = "dict") =>
        \A i \in 1..Len(data.kv) :
            (IsAmbiguous(data.kv[i].v) /\ ~IsPromoted(data.kv[i])) =>
                /\ Returned
                /\ result.t = "dict"
                /\ DictHas(result.kv, data.kv[i].k)
                /\ DictGet(result.kv, data.kv[i].k) = data.kv[i].v

\* the flattened stream the table of enc was written from, its columns, the
\* flags of a column and the value of row i in column c
WrittenStream == FlatStream(_extract_primary_stream(data).stream)
WrittenCols == TableCols(WrittenStream)
ColumnFlags(c) == AnalyzeColumn(ColumnValues(WrittenStream, WrittenCols[c]))
CellValue(i, c) == DictGet(WrittenStream[i], WrittenCols[c])

\* row i is after the first, c is the first sorted column, the column was
\* flagged sequential and the value is the previous value plus the step
IsIncrement(i, c) ==
    /\ i > 1 /\ c = 1
    /\ ColumnFlags(c).is_sequential
    /\ NumEqual(CellValue(i, c), NumAdd(CellValue(i - 1, c), ColumnFlags(c).step))

\* row i is after the first, the value is the one of the previous row, the
\* column was flagged as having repetition and the rendering has more than
\* one character
IsRepeat(i, c) ==
    /\ i > 1
    /\ PyEq(CellValue(i, c), CellValue(i - 1, c))
    /\ ColumnFlags(c).has_repetition
    /\ Len(_format_value(CellValue(i, c))) > 1

ExpectedToken(i, c) ==
    IF IsIncrement(i, c) THEN GAS_TOKEN
    ELSE IF IsRepeat(i, c) THEN LIQUID_TOKEN
    ELSE _format_value(CellValue(i, c))

ExpectedRow(i) ==
    Join([c \in 1..Len(WrittenCols) |-> ExpectedToken(i, c)], <<",">>)

\* id = 1,2,3 with status = ok,ok,ok
IdExample ==
    VList(<<Obj2(K_id, VInt(1), K_status, S_ok),
            Obj2(K_id, VInt(2), K_status, S_ok),
            Obj2(K_id, VInt(3), K_status, S_ok)>>)
IdExampleRows ==
    <<<<"1", ",", "o", "k">>, <<GAS_TOKEN[1], ",", LIQUID_TOKEN[1]>>,
      <<GAS_TOKEN[1], ",", LIQUID_TOKEN[1]>>>>

C15_EmptyCellWritten ==
    (RowsDiffer /\ pc # "start") =>
        \A i \in 1..Len(data.items) : \A c \in 1..Len(RootCols) :
            ~RowHas(i, RootCols[c]) => WrittenCell(i, c) = <<>>

\* the key of metadata line i of the text and the columns its table header
\* names, in the order written
WrittenKey(i) == Take(enc.meta_lines[i], Find(enc.meta_lines[i], META_SEPARATOR) - 1)
WrittenColumns == HeaderCols(SplitOn(HeaderMatch(enc.table_lines[1]).cols_str, ","))

MetadataSorted ==
    \A i, j \in 1..Len(enc.meta_lines) : i < j => StrLess(WrittenKey(i), WrittenKey(j))
ColumnsSorted ==
    \A i, j \in 1..Len(WrittenColumns) :
        i < j => StrLess(WrittenColumns[i], WrittenColumns[j])

C17_DeclaredCount ==
    Returned =>
        \A i \in 1..Len(tables) : Len(tables[i].v.rows) = tables[i].v.expected_rows

\* the decoder is at a non-blank line while a table is open and fewer rows
\* than its header declared have been read
OpenTableLine ==
    /\ AtLine
    /\ Len(current_line) > 0
    /\ current_table
    /\ DictGet(tables, current_table_name).row_index
         < DictGet(tables, current_table_name).expected_rows

\* the step consumes the line as one more row of the open table
RowAppended ==
    /\ lines' = Tail(lines)
    /\ pc' = pc
    /\ DictHas(tables', current_table_name)
    /\ Len(DictGet(tables', current_table_name).rows)
         = Len(DictGet(tables, current_table_name).rows) + 1
    /\ DictGet(tables', current_table_name).cols = DictGet(tables, current_table_name).cols

\* C18: while a table is open and fewer than count rows have been read, every
\* non-blank line is consumed as a data row of that table, whatever its
\* content.
C18_OpenTableTakesLine == [][OpenTableLine => RowAppended]_vars

\* the open table, the tokens of the row line the decoder is at, and the
\* table after the step
OpenTable == DictGet(tables, current_table_name)
RowTokens == PadTokens(CsvReadLine(current_line).tokens, Len(OpenTable.cols))
OpenTableAfter == DictGet(tables', current_table_name)

\* the value a cell yields; a Bool is not numeric
CellYield(tok, prev, row_index) ==
    IF tok = GAS_TOKEN
    THEN IF IsNum(prev) THEN NumAdd(prev, VInt(1)) ELSE VInt(row_index + 1)
    ELSE IF tok = LIQUID_TOKEN THEN prev
    ELSE _parse_value(tok)
ColumnYield(c) ==
    CellYield(RowTokens[c], DictGet(OpenTable.prev_vals, OpenTable.cols[c]),
              OpenTable.row_index)

\* C19: when a table row is decoded, per column a cell equal to _ yields
\* prev_vals[col] + 1 if prev_vals[col] is numeric and otherwise
\* row_index + 1, a cell equal to ^ yields prev_vals[col], and any other cell
\* yields the result of the Cell Parser; prev_vals[col] is set to the value
\* yielded before the next row is read, and row_index grows by exactly 1 per
\* row.
C19_CellRule ==
    [][(OpenTableLine /\ ~IsHeaderLine) =>
          /\ OpenTableAfter.row_index = OpenTable.row_index + 1
          /\ Len(OpenTableAfter.rows) = Len(OpenTable.rows) + 1
          /\ \A c \in 1..Len(OpenTable.cols) :
                /\ DictGet(OpenTableAfter.rows[Len(OpenTableAfter.rows)], OpenTable.cols[c])
                     = ColumnYield(c)
                /\ DictGet(OpenTableAfter.prev_vals, OpenTable.cols[c]) = ColumnYield(c)]_vars

\* the table of the latest header has received its declared count of rows
TableFull ==
    /\ DictHas(tables, current_table_name)
    /\ Len(OpenTable.rows) = OpenTable.expected_rows

\* the step gives no row to a table that holds its declared count: the table
\* is left as it is, or a header of the same name declares it anew
NoRowAppended ==
    /\ Len(tables') >= Len(tables)
    /\ \A i \in 1..Len(tables) :
          Len(tables[i].v.rows) = tables[i].v.expected_rows =>
              \/ tables'[i] = tables[i]
              \/ /\ tables'[i].k = tables[i].k
                 /\ tables'[i].v.rows = <<>>
                 /\ AtLine /\ StartsWith(current_line, TABLE_MARKER)

\* the step treats the line as a header, as a metadata line or not at all
ClassifiedAfresh ==
    IF StartsWith(current_line, TABLE_MARKER)
    THEN /\ metadata' = metadata
         /\ \/ pc' = "error" /\ err' = "ZonDecodeError" /\ tables' = tables
            \/ /\ pc' = pc /\ lines' = Tail(lines)
               /\ DictHas(tables', current_table_name')
               /\ DictGet(tables', current_table_name').rows = <<>>
    ELSE IF Find(current_line, META_SEPARATOR) > 0
    THEN /\ tables' = tables /\ pc' = pc /\ lines' = Tail(lines)
         /\ DictHas(metadata', Strip(Take(current_line, Find(current_line, META_SEPARATOR) - 1)))
    ELSE /\ tables' = tables /\ metadata' = metadata /\ pc' = pc /\ lines' = Tail(lines)

\* C20: once a table has received its declared count of rows it is closed:
\* no later line is ever appended to it, and each later non-blank line is
\* classified afresh as a table header (it starts with @), as a metadata
\* line (it contains the separator) or is ignored; a header declaring count
\* 0 takes no rows at all.
C20_ClosedTable ==
    [][/\ NoRowAppended
       /\ (AtLine /\ Len(current_line) > 0 /\ TableFull) => ClassifiedAfresh]_vars

\* C20 witness: a table declared with one row holds its row, and the line
\* after the row has been stored as metadata
C20_Witness ==
    /\ Returned
    /\ DictHas(tables, <<"t">>)
    /\ DictGet(tables, <<"t">>).expected_rows = 1
    /\ Len(DictGet(tables, <<"t">>).rows) = 1
    /\ DictHas(metadata, <<"m">>)
    /\ enc.text = Join(<<L_header1, L_one, L_meta>>, <<"\n">>)

\* _unflatten was given one entry, and the segments of its key
OneEntry == Len(metadata) = 1
KeyParts == SplitOn(metadata[1].k, ".")

\* the key has an all-digit segment after a name, no two all-digit segments
\* in a row, and a last segment that is a name
IsIndexedPath(parts) ==
    /\ Len(parts) >= 3
    /\ ~IsDigitStr(parts[1])
    /\ ~IsDigitStr(parts[Len(parts)])
    /\ \E i \in 2..(Len(parts) - 1) : IsDigitStr(parts[i])
    /\ \A i \in 2..Len(parts) : ~(IsDigitStr(parts[i - 1]) /\ IsDigitStr(parts[i]))

\* an Array with empty Objects up to index idx and elem at idx
ArrayWith(idx, elem) ==
    VList([j \in 1..(idx + 1) |-> IF j = idx + 1 THEN elem ELSE VDict(<<>>)])

\* the entries of the Object that holds v under the path parts[i..]: a name
\* followed by digits holds an Array, any other name but the last an Object
RECURSIVE NestedAt(_, _, _)
NestedAt(parts, i, v) ==
    IF i = Len(parts) THEN <<KV(parts[i], v)>>
    ELSE IF IsDigitStr(parts[i + 1])
    THEN <<KV(parts[i], ArrayWith(IntValue(parts[i + 1]), VDict(NestedAt(parts, i + 2, v))))>>
    ELSE <<KV(parts[i], VDict(NestedAt(parts, i + 1, v)))>>

\* C21: Unflatten places the value of a dotted key that has an all-digit
\* segment i after a name p inside element i of an Array stored at p, creating
\* the Array and padding it with empty Objects up to index i, and continues
\* through all remaining segments inside that element: items.0.id = v gives
\* {items:[{id:v}]} and items.0.meta.id = v gives {items:[{meta:{id:v}}]}.
C21_IndexedPath ==
    (Finished /\ data = VNull /\ OneEntry /\ IsIndexedPath(KeyParts)) =>
        /\ Returned
        /\ result = VDict(NestedAt(KeyParts, 1, metadata[1].v))

\* v is x or is held somewhere inside x
RECURSIVE Occurs(_, _)
Occurs(v, x) ==
    \/ x = v
    \/ x.t = "list" /\ \E i \in 1..Len(x.items) : Occurs(v, x.items[i])
    \/ x.t = "dict" /\ \E i \in 1..Len(x.kv) : Occurs(v, x.kv[i].v)

\* C22: in Unflatten, a dotted key whose final segment is all digits (items.0,
\* a.0.1) stores nothing: its value is dropped and no key is assigned for it
\* in any container.
C22_NumericFinalDropped ==
    (Finished /\ data = VNull /\ OneEntry /\ Len(KeyParts) > 1
        /\ IsDigitStr(KeyParts[Len(KeyParts)])) =>
            /\ Returned
            /\ ~Occurs(metadata[1].v, result)

\* C23: decode(encode(v)) never raises DecodeError: for every Value for
\* which encode writes a table (any stream key, any row key sets, rows with
\* no keys and rows that are not Objects included) the header line matches
\* the grammar the decoder requires, and no metadata line or data row that
\* encode writes starts with the table marker.
C23_NeverDecodeError ==
    /\ Finished => err # "ZonDecodeError"
    /\ (pc = "encoded" /\ enc.table_lines # <<>>) =>
            /\ IsHeaderText(enc.table_lines[1])
            /\ \A i \in 2..Len(enc.table_lines) :
                  ~StartsWith(enc.table_lines[i], TABLE_MARKER)
    /\ pc = "encoded" =>
            \A i \in 1..Len(enc.meta_lines) : ~StartsWith(enc.meta_lines[i], TABLE_MARKER)

\* the table the decoder reads for the stream encode wrote: it is present
\* and r of its rows have been read
ReadTable == DictGet(tables, enc.stream_key)
RowsRead ==
    IF pc # "start" /\ enc.table_lines # <<>> /\ DictHas(tables, enc.stream_key)
    THEN ReadTable.row_index ELSE 0

\* C24: running the row writer of the encoder and the row reader of the
\* decoder over the same table, after every row i and for every column the
\* prev_vals[col] of the decoder equals the prev_vals[col] of the encoder,
\* that is the original value of row i in that column (null when the row
\* lacks it).
C24_PrevValsAgree ==
    RowsRead > 0 =>
        \A c \in 1..Len(WrittenCols) :
            /\ DictHas(ReadTable.prev_vals, WrittenCols[c])
            /\ PyEq(DictGet(ReadTable.prev_vals, WrittenCols[c]), CellValue(RowsRead, c))

\* C25: each table row written by encode occupies exactly one line of the
\* text, for every cell content including Strings that hold a newline or a
\* carriage return, so that the decoder's split of the text into lines
\* yields exactly count row lines after the header, each with as many CSV
\* cells as there are columns.
C25_OneLinePerRow ==
    (pc = "encoded" /\ IsStreamRoot /\ RootCols # <<>>) =>
        /\ Len(InputLines) = Len(data.items) + 1
        /\ \A i \in 1..Len(data.items) :
              /\ CsvReadLine(InputLine(i + 1)).ok
              /\ Len(CsvReadLine(InputLine(i + 1)).tokens) = Len(RootCols)

\* v is a String that begins with { and ends with }, begins with [ and ends
\* with ], or begins and ends with a double quote
IsDelimited(v) ==
    /\ v.t = "str"
    /\ Len(v.s) >= 2
    /\ <<v.s[1], v.s[Len(v.s)]>> \in {<<"{", "}">>, <<"[", "]">>, <<"\"", "\"">>}

\* C26: a String value that begins with { and ends with }, or begins with [
\* and ends with ], or begins and ends with a double quote, round-trips
\* through encode and decode as the same String, not as an Object, an Array
\* or a String stripped of its quotes.
C26_DelimitedStringKept ==
    /\ (Finished /\ IsStreamRoot) =>
            \A i \in 1..Len(data.items) : \A j \in 1..Len(data.items[i].kv) :
                IsDelimited(data.items[i].kv[j].v) =>
                    /\ RowsReturned
                    /\ DictGet(result.items[i].kv, data.items[i].kv[j].k) = data.items[i].kv[j].v
    /\ (Finished /\ data.t = "dict") =>
            \A i \in 1..Len(data.kv) :
                IsDelimited(data.kv[i].v) =>
                    /\ Returned
                    /\ result.t = "dict"
                    /\ DictGet(result.kv, data.kv[i].k) = data.kv[i].v

\* C27: the empty String and Null stay distinct across a round trip: a table
\* cell or a metadata value equal to "" decodes as "", not as null.
C27_EmptyStringKept ==
    /\ (Finished /\ IsStreamRoot) =>
            \A i \in 1..Len(data.items) : \A j \in 1..Len(data.items[i].kv) :
                data.items[i].kv[j].v = S_empty =>
                    /\ RowsReturned
                    /\ DictGet(result.items[i].kv, data.items[i].kv[j].k) = S_empty
    /\ (Finished /\ data.t = "dict") =>
            \A i \in 1..Len(data.kv) :
                data.kv[i].v = S_empty =>
                    /\ Returned
                    /\ result.t = "dict"
                    /\ DictGet(result.kv, data.kv[i].k) = S_empty

\* x is an Array or an Object that holds, at some depth, a String that reads
\* like a number or a token
RECURSIVE HoldsAmbiguous(_)
HoldsAmbiguous(x) ==
    \/ x.t = "list" /\ \E i \in 1..Len(x.items) :
          IsAmbiguous(x.items[i]) \/ HoldsAmbiguous(x.items[i])
    \/ x.t = "dict" /\ \E i \in 1..Len(x.kv) :
          IsAmbiguous(x.kv[i].v) \/ HoldsAmbiguous(x.kv[i].v)

\* x and y are the same Value, or both are Arrays or Objects of the same
\* shape, and where x holds a String that reads like a number or a token, y
\* holds that same String
RECURSIVE AmbiguousKept(_, _)
AmbiguousKept(x, y) ==
    IF IsAmbiguous(x) THEN y = x
    ELSE IF x.t = "list"
    THEN /\ y.t = "list"
         /\ Len(y.items) = Len(x.items)
         /\ \A i \in 1..Len(x.items) : AmbiguousKept(x.items[i], y.items[i])
    ELSE IF x.t = "dict"
    THEN /\ y.t = "dict"
         /\ \A i \in 1..Len(x.kv) :
               /\ DictHas(y.kv, x.kv[i].k)
               /\ AmbiguousKept(x.kv[i].v, DictGet(y.kv, x.kv[i].k))
    ELSE TRUE

\* C28: inside a nested Array or Object cell, a String element equal to a
\* numeric literal or to a reserved token round-trips as a String, never as
\* a number, a boolean or null.
C28_NestedAmbiguousKept ==
    (Finished /\ IsStreamRoot) =>
        \A i \in 1..Len(data.items) : \A j \in 1..Len(data.items[i].kv) :
            (data.items[i].kv[j].v.t = "list" /\ HoldsAmbiguous(data.items[i].kv[j].v)) =>
                /\ RowsReturned
                /\ AmbiguousKept(data.items[i].kv[j].v,
                                 DictGet(result.items[i].kv, data.items[i].kv[j].k))

\* C29: Unflatten inverts Flatten: for every Object o whose keys at every
\* level hold no dot and are not all digits, Unflatten(Flatten(o)) equals o,
\* including when o holds empty nested Objects and Objects nested deeper than
\* the flatten depth limit of 1, which Flatten keeps whole as values.
C29_UnflattenInvertsFlatten ==
    (Finished /\ data.t = "dict") => (Returned /\ DeepEq(result, data))

====
